---- MODULE Spec2Model ----
(***************************************************************************)
(* Model of the gogo utility packages: the zip helper (Download, Archive,  *)
(* Unarchive) and the fs helpers acting on a POSIX filesystem, and the     *)
(* leveled logger.                                                         *)
(*                                                                         *)
(* A Go string is a sequence of one-character strings, so that the path    *)
(* functions (Clean, Join, Base, Dir, TrimPrefix) are computed character   *)
(* by character as the library computes them.                              *)
(***************************************************************************)
EXTENDS Integers, Sequences, FiniteSets, TLC

VARIABLES fs, hist,
          aurora, verboseEnabled, debugEnabled, traceEnabled, enabled, written

\* Package log's variables: whether aurora colors (stdout is a terminal), the
\* three flags, the Enable functions called so far, and the last call with
\* the text it wrote to the log's output.
logVars == <<aurora, verboseEnabled, debugEnabled, traceEnabled, enabled, written>>

vars == <<fs, hist, logVars>>

----------------------------------------------------------------------------
(* Strings *)

\* The characters that occur in the modelled paths and URLs, in byte order.
Alphabet == <<"-", ".", "/", ":", "b", "d", "f", "h", "n", "o", "p", "t", "w", "x", "z">>

Ord(c) == CHOOSE i \in 1..Len(Alphabet) : Alphabet[i] = c

\* Go's string comparison s < t (byte-wise lexicographic).
RECURSIVE StrLess(_, _)
StrLess(s, t) ==
    IF t = <<>> THEN FALSE
    ELSE IF s = <<>> THEN TRUE
    ELSE IF Head(s) = Head(t) THEN StrLess(Tail(s), Tail(t))
    ELSE Ord(Head(s)) < Ord(Head(t))

\* strings.HasPrefix
HasPrefix(s, prefix) ==
    /\ Len(s) >= Len(prefix)
    /\ SubSeq(s, 1, Len(prefix)) = prefix

\* strings.HasSuffix
HasSuffix(s, suffix) ==
    /\ Len(s) >= Len(suffix)
    /\ SubSeq(s, Len(s) - Len(suffix) + 1, Len(s)) = suffix

\* strings.TrimPrefix
TrimPrefix(s, prefix) ==
    IF HasPrefix(s, prefix) THEN SubSeq(s, Len(prefix) + 1, Len(s)) ELSE s

\* strings.LastIndex(s, "/"), 1-based; 0 when s holds no separator.
LastSlash(s) ==
    IF \E i \in 1..Len(s) : s[i] = "/"
    THEN CHOOSE i \in 1..Len(s) : s[i] = "/" /\ \A j \in (i+1)..Len(s) : s[j] # "/"
    ELSE 0

----------------------------------------------------------------------------
(* path/filepath on a Unix host *)

\* os.PathSeparator
Separator == "/"

\* filepath.ToSlash: every Separator becomes a forward slash.
ToSlash(s) == [i \in 1..Len(s) |-> IF s[i] = Separator THEN "/" ELSE s[i]]

\* The non-empty elements of s between separators, in order.
RECURSIVE Components(_)
Components(s) ==
    IF s = <<>> THEN <<>>
    ELSE IF Head(s) = Separator THEN Components(Tail(s))
    ELSE LET stops == {i \in 1..Len(s) : s[i] = Separator}
             n == IF stops = {} THEN Len(s)
                  ELSE (CHOOSE i \in stops : \A j \in stops : i <= j) - 1
         IN  <<SubSeq(s, 1, n)>> \o Components(SubSeq(s, n + 1, Len(s)))

\* The loop of filepath.Clean over the elements: "." is dropped, ".." removes
\* the element before it (or is kept when there is none and the path is not
\* rooted).
RECURSIVE CleanElems(_, _, _)
CleanElems(elems, rooted, out) ==
    IF elems = <<>> THEN out
    ELSE LET e == Head(elems)
             rest == Tail(elems)
         IN  IF e = <<".">> THEN CleanElems(rest, rooted, out)
             ELSE IF e = <<".", ".">>
                  THEN IF out # <<>> /\ out[Len(out)] # <<".", ".">>
                       THEN CleanElems(rest, rooted, SubSeq(out, 1, Len(out) - 1))
                       ELSE IF rooted THEN CleanElems(rest, rooted, out)
                       ELSE CleanElems(rest, rooted, Append(out, e))
             ELSE CleanElems(rest, rooted, Append(out, e))

\* strings.Join(elems, "/")
RECURSIVE JoinElems(_)
JoinElems(elems) ==
    IF elems = <<>> THEN <<>>
    ELSE IF Len(elems) = 1 THEN Head(elems)
    ELSE Head(elems) \o <<Separator>> \o JoinElems(Tail(elems))

\* filepath.Clean, given whether path is rooted and its cleaned elements joined.
CleanOut(rooted, out) ==
    IF rooted THEN <<Separator>> \o out
    ELSE IF out = <<>> THEN <<".">>
    ELSE out

\* filepath.Clean
Clean(path) ==
    IF path = <<>> THEN <<".">>
    ELSE CleanOut(Head(path) = Separator,
                  JoinElems(CleanElems(Components(path), Head(path) = Separator, <<>>)))

\* filepath.Join of one element
Join1(a) == IF a = <<>> THEN <<>> ELSE Clean(a)

\* filepath.Join of two elements
Join(a, b) ==
    IF a = <<>> /\ b = <<>> THEN <<>>
    ELSE Clean(IF a # <<>> THEN a \o <<Separator>> \o b ELSE b)

\* s without its trailing separators
RECURSIVE StripTrailing(_)
StripTrailing(s) ==
    IF s # <<>> /\ s[Len(s)] = Separator
    THEN StripTrailing(SubSeq(s, 1, Len(s) - 1))
    ELSE s

\* The last element of p, a path without trailing separators.
LastElem(p) ==
    IF p = <<>> THEN <<Separator>> ELSE SubSeq(p, LastSlash(p) + 1, Len(p))

\* filepath.Base
Base(path) ==
    IF path = <<>> THEN <<".">> ELSE LastElem(StripTrailing(path))

\* filepath.Dir
Dir(path) == Clean(SubSeq(path, 1, LastSlash(path)))

----------------------------------------------------------------------------
(* The filesystem the os package acts on.  fs maps each existing absolute    *)
(* path to its node; the process runs unprivileged, so permission bits are  *)
(* enforced, with the working directory Cwd.                                *)

Nil == "nil"

Root == <<Separator>>

\* The process's working directory.
Cwd == <<"/", "w">>

\* Owner permission classes of a node (os.FileMode.Perm).
Readable(mode) == mode \in {"rwx", "r-x", "rw-"}
Writable(mode) == mode \in {"rwx", "rw-"}
Searchable(mode) == mode \in {"rwx", "r-x"}

\* The bytes of a file: plain bytes (raw), or a zip container with its entries.
EmptyData == [zip |-> FALSE, raw |-> "", entries |-> <<>>]
PlainData(bytes) == [zip |-> FALSE, raw |-> bytes, entries |-> <<>>]
ZipData(entries) == [zip |-> TRUE, raw |-> "", entries |-> entries]

DirNode(mode) == [kind |-> "dir", mode |-> mode, data |-> EmptyData]
FileNode(mode, data) == [kind |-> "file", mode |-> mode, data |-> data]

\* The absolute path the kernel resolves a non-empty path name to.
Abs(path) ==
    Clean(IF Head(path) = Separator THEN path ELSE Cwd \o <<Separator>> \o path)

\* The error of searching directory d itself.
SearchErr(F, d) ==
    IF d \notin DOMAIN F THEN "ENOENT"
    ELSE IF F[d].kind # "dir" THEN "ENOTDIR"
    ELSE IF ~Searchable(F[d].mode) THEN "EACCES"
    ELSE Nil

\* The error of looking up directory d and searching it (path resolution of
\* the leading elements of a path name): the error above d, else d's own.
RECURSIVE TraverseErr(_, _)
TraverseStep(F, d, up) == IF up # Nil THEN up ELSE SearchErr(F, d)
TraverseErr(F, d) ==
    IF d = Root THEN SearchErr(F, d) ELSE TraverseStep(F, d, TraverseErr(F, Dir(d)))

\* Path resolution of a path name: the absolute path abs it names, the error
\* up of reaching abs's directory, and whether the name ends in a separator.
ResolveAbs(F, path, a) ==
    [up |-> IF a = Root THEN Nil ELSE TraverseErr(F, Dir(a)),
     abs |-> a,
     parent |-> Dir(a),
     slash |-> HasSuffix(path, <<Separator>>)]

Resolve(F, path) ==
    IF path = <<>>
    THEN [up |-> "ENOENT", abs |-> Root, parent |-> Root, slash |-> FALSE]
    ELSE ResolveAbs(F, path, Abs(path))

\* The error of resolving a path name to an existing node.
LookupErr(F, r) ==
    IF r.up # Nil THEN r.up
    ELSE IF r.abs \notin DOMAIN F THEN "ENOENT"
    ELSE IF F[r.abs].kind # "dir" /\ r.slash THEN "ENOTDIR"
    ELSE Nil

\* os.Stat and os.Lstat (the model has no symbolic links)
StatAt(F, r, e) ==
    IF e # Nil THEN [err |-> e, kind |-> "none", mode |-> "---"]
    ELSE [err |-> Nil, kind |-> F[r.abs].kind, mode |-> F[r.abs].mode]
StatOf(F, r) == StatAt(F, r, LookupErr(F, r))
Stat(F, path) == StatOf(F, Resolve(F, path))

\* os.IsNotExist
IsNotExist(err) == err = "ENOENT"

\* os.Create: open with O_RDWR|O_CREATE|O_TRUNC, mode 0666.
CreateAt(F, r) ==
    IF r.up # Nil THEN [err |-> r.up, fs |-> F]
    ELSE IF r.abs \in DOMAIN F
         THEN IF F[r.abs].kind = "dir" THEN [err |-> "EISDIR", fs |-> F]
              ELSE IF r.slash THEN [err |-> "ENOTDIR", fs |-> F]
              ELSE IF ~Writable(F[r.abs].mode) THEN [err |-> "EACCES", fs |-> F]
              ELSE [err |-> Nil, fs |-> [F EXCEPT ![r.abs].data = EmptyData]]
    ELSE IF r.slash THEN [err |-> "EISDIR", fs |-> F]
    ELSE IF ~Writable(F[r.parent].mode) THEN [err |-> "EACCES", fs |-> F]
    ELSE [err |-> Nil, fs |-> (r.abs :> FileNode("rw-", EmptyData)) @@ F]
OsCreate(F, path) == CreateAt(F, Resolve(F, path))

\* io.Copy into the file os.Create opened at path
WriteData(F, path, data) == [F EXCEPT ![Abs(path)].data = data]

\* os.Open for reading
OpenAt(F, r, e) ==
    IF e # Nil THEN [err |-> e, kind |-> "none", data |-> EmptyData]
    ELSE IF ~Readable(F[r.abs].mode)
         THEN [err |-> "EACCES", kind |-> F[r.abs].kind, data |-> EmptyData]
    ELSE [err |-> Nil, kind |-> F[r.abs].kind, data |-> F[r.abs].data]
OpenOf(F, r) == OpenAt(F, r, LookupErr(F, r))
OsOpen(F, path) == OpenOf(F, Resolve(F, path))

\* os.Mkdir
MkdirAt(F, r, perm) ==
    IF r.up # Nil THEN [err |-> r.up, fs |-> F]
    ELSE IF r.abs \in DOMAIN F THEN [err |-> "EEXIST", fs |-> F]
    ELSE IF ~Writable(F[r.parent].mode) THEN [err |-> "EACCES", fs |-> F]
    ELSE [err |-> Nil, fs |-> (r.abs :> DirNode(perm)) @@ F]
Mkdir(F, path, perm) ==
    IF path = <<>> THEN [err |-> "ENOENT", fs |-> F]
    ELSE MkdirAt(F, Resolve(F, path), perm)

\* The parent MkdirAll recurses on: path up to the separator before its last
\* element.
ParentUpTo(path, i) == IF i >= 1 THEN SubSeq(path, 1, i - 1) ELSE <<>>
MkdirAllParent(path) == ParentUpTo(path, LastSlash(StripTrailing(path)))

\* os.MkdirAll: nothing to do when path is a directory; else the parent is made
\* (MkdirAllUp), then path (MkdirAllLeaf), and a failed Mkdir is forgiven when
\* path is a directory after all.
RECURSIVE MkdirAll(_, _, _)
MkdirAllLeaf(F, mk, again) ==
    IF mk.err = Nil THEN mk
    ELSE IF again.err = Nil /\ again.kind = "dir" THEN [err |-> Nil, fs |-> F]
    ELSE mk
MkdirAllUp(path, perm, up) ==
    IF up.err # Nil THEN up
    ELSE MkdirAllLeaf(up.fs, Mkdir(up.fs, path, perm), Stat(up.fs, path))
MkdirAllSlow(F, path, perm, parent) ==
    MkdirAllUp(path, perm,
               IF parent # <<>> THEN MkdirAll(F, parent, perm)
               ELSE [err |-> Nil, fs |-> F])
MkdirAllFast(F, path, perm, st) ==
    IF st.err = Nil
    THEN IF st.kind = "dir" THEN [err |-> Nil, fs |-> F]
         ELSE [err |-> "ENOTDIR", fs |-> F]
    ELSE MkdirAllSlow(F, path, perm, MkdirAllParent(path))
MkdirAll(F, path, perm) == MkdirAllFast(F, path, perm, Stat(F, path))

\* The names in directory a, sorted (filepath's readDirNames).
RECURSIVE SortNames(_)
SortRest(S, m) == <<m>> \o SortNames(S \ {m})
SortNames(S) ==
    IF S = {} THEN <<>>
    ELSE SortRest(S, CHOOSE x \in S : \A y \in S \ {x} : StrLess(x, y))

ReadDirAt(F, r, e) ==
    IF e # Nil THEN [err |-> e, names |-> <<>>]
    ELSE IF F[r.abs].kind # "dir" THEN [err |-> "ENOTDIR", names |-> <<>>]
    ELSE IF ~Readable(F[r.abs].mode) THEN [err |-> "EACCES", names |-> <<>>]
    ELSE [err |-> Nil,
          names |-> SortNames({Base(q) : q \in {p \in DOMAIN F : p # r.abs /\ Dir(p) = r.abs}})]
ReadDirOf(F, r) == ReadDirAt(F, r, LookupErr(F, r))
ReadDirNames(F, path) == ReadDirOf(F, Resolve(F, path))

----------------------------------------------------------------------------
(* archive/zip: a container is the sequence of the entries written to it *)

\* One entry of a container: zip.FileHeader and the entry's content.  isDir
\* and mode come from the header's external attributes.
Entry(name, isDir, mode, data) ==
    [name |-> name, isDir |-> isDir, mode |-> mode, data |-> data]

\* zip.FileInfoHeader: the header of a node, named by the node's base name.
FileInfoHeader(path, info) ==
    Entry(Base(path), info.kind = "dir", info.mode, EmptyData)

\* FileHeader.FileInfo().IsDir(): the attributes say so or the name ends in "/".
EntryIsDir(e) == e.isDir \/ HasSuffix(e.name, <<"/">>)

----------------------------------------------------------------------------
(* Handles: what a function opened, and the Close calls it deferred.  The   *)
(* events of a call are its opens and closes in order; the deferred closes  *)
(* run, last deferred first, when the function returns.                     *)

NoHandles == [events |-> <<>>, deferred |-> <<>>]

\* x, err := open(...) succeeded
OpenHandle(l, x) == [l EXCEPT !.events = Append(@, <<"open", x>>)]

\* defer x.Close()
DeferClose(l, x) == [l EXCEPT !.deferred = <<x>> \o @]

\* A nested function's events happened during this one.
During(l, events) == [l EXCEPT !.events = @ \o events]

\* The function returns: its deferred calls run.
RunDeferred(l) ==
    l.events \o [i \in 1..Len(l.deferred) |-> <<"close", l.deferred[i]>>]

----------------------------------------------------------------------------
(* Archive *)

\* The archive writer's state during the walk: the entries written, the paths
\* the callback was called for, the callback's last return value.
Visited(w, path, err) == [w EXCEPT !.visited = Append(@, path), !.err = err]
Written(w, path, header, err) ==
    [w EXCEPT !.visited = Append(@, path), !.entries = Append(@, header), !.err = err]

\* The name createArchive gives the header of a visited path under baseDir
\* (baseDir # ""), before the directory slash is added.
HeaderName(baseDir, path) ==
    IF baseDir = <<".">>
    THEN ToSlash(Join(baseDir, path))
    ELSE ToSlash(Join1(TrimPrefix(ToSlash(path), baseDir \o <<"/">>)))

\* ROOT DIRECTORY CHECK: the callback returns without writing the header.
IsRootDuplicate(baseDir, name) == baseDir = name

\* The callback from os.Open on: the header is written, then the content;
\* opened lists the paths os.Open returned a file for.
copyFile(path, header, file, w) ==
    IF file.err # Nil THEN Written(w, path, header, file.err)
    ELSE Written([w EXCEPT !.opened = Append(@, path)], path,
                 [header EXCEPT !.data = file.data], Nil)

\* The callback from "Check if Archive File Header is a Directory" on.
writeHeader(F, path, info, header, w) ==
    IF info.kind = "dir"
    THEN Written(w, path, [header EXCEPT !.name = @ \o <<"/">>], Nil)
    ELSE copyFile(path, header, OsOpen(F, path), w)

\* The callback from "Verify Base Directory" on.
nameHeader(F, baseDir, path, info, header, w) ==
    IF baseDir = <<>> THEN writeHeader(F, path, info, header, w)
    ELSE IF baseDir # <<".">> /\ IsRootDuplicate(baseDir, header.name)
         THEN Visited(w, path, Nil)
    ELSE writeHeader(F, path, info, header, w)

\* The callback createArchive passes to filepath.Walk.
walkFn(F, baseDir, path, info, err, w) ==
    IF err # Nil THEN Visited(w, path, err)
    ELSE nameHeader(F, baseDir, path, info,
                    [FileInfoHeader(path, info) EXCEPT
                        !.name = IF baseDir # <<>> THEN HeaderName(baseDir, path) ELSE @],
                    w)

\* filepath.walk: the callback is called for path; a directory that could be
\* read is then walked name by name, until the callback returns an error.
RECURSIVE walk(_, _, _, _, _)
RECURSIVE walkNames(_, _, _, _, _)
walkNext(F, baseDir, path, names, w1) ==
    IF w1.err # Nil THEN w1
    ELSE walkNames(F, baseDir, path, Tail(names), w1)

walkChild(F, baseDir, filename, info, w) ==
    IF info.err # Nil THEN walkFn(F, baseDir, filename, info, info.err, w)
    ELSE walk(F, baseDir, filename, info, w)

walkName(F, baseDir, path, names, filename, w) ==
    walkNext(F, baseDir, path, names,
             walkChild(F, baseDir, filename, Stat(F, filename), w))

walkNames(F, baseDir, path, names, w) ==
    IF names = <<>> THEN w
    ELSE walkName(F, baseDir, path, names, Join(path, Head(names)), w)

walkInto(F, baseDir, path, rd, w1) ==
    IF rd.err # Nil \/ w1.err # Nil THEN w1
    ELSE walkNames(F, baseDir, path, rd.names, w1)

walkDir(F, baseDir, path, info, rd, w) ==
    walkInto(F, baseDir, path, rd, walkFn(F, baseDir, path, info, rd.err, w))

walk(F, baseDir, path, info, w) ==
    IF info.kind # "dir" THEN walkFn(F, baseDir, path, info, Nil, w)
    ELSE walkDir(F, baseDir, path, info, ReadDirNames(F, path), w)

\* filepath.Walk
NoEntries == [entries |-> <<>>, visited |-> <<>>, err |-> Nil, opened |-> <<>>]
WalkRoot(F, baseDir, root, info) ==
    IF info.err # Nil THEN walkFn(F, baseDir, root, info, info.err, NoEntries)
    ELSE walk(F, baseDir, root, info, NoEntries)
Walk(F, baseDir, root) == WalkRoot(F, baseDir, root, Stat(F, root))

\* What createArchive returns after filepath.Walk returned err: the call's
\* result is not assigned, and the function ends in "return nil".
WalkResult(err) == Nil

\* createArchive.  The deferred archive.Close() writes the central directory,
\* so on every return after os.Create the target is a container holding the
\* entries written so far.
Returned(err, F, calls, w) ==
    [err |-> err, fs |-> F, calls |-> calls,
     entries |-> w.entries, visited |-> w.visited, walkErr |-> w.err,
     opened |-> w.opened]

createArchiveWalk(F, target, w) ==
    Returned(WalkResult(w.err), WriteData(F, target, ZipData(w.entries)),
             <<"Create", "Stat", "Walk">>, w)

createArchiveStat(F, source, target, info) ==
    IF info.err # Nil
    THEN Returned(info.err, WriteData(F, target, ZipData(<<>>)),
                  <<"Create", "Stat">>, NoEntries)
    ELSE createArchiveWalk(F, target,
             Walk(F, IF info.kind = "dir" THEN Base(source) ELSE <<>>, source))

createArchiveCreate(F, source, target, zipfile) ==
    IF zipfile.err # Nil THEN Returned(zipfile.err, F, <<"Create">>, NoEntries)
    ELSE createArchiveStat(zipfile.fs, source, target, Stat(zipfile.fs, source))

\* A createArchive that looks at the source before it creates the target.
createArchiveStatFirst(F, source, target) ==
    IF Stat(F, source).err # Nil
    THEN Returned(Stat(F, source).err, F, <<"Stat">>, NoEntries)
    ELSE createArchiveCreate(F, source, target, OsCreate(F, target))

createArchive(F, source, target) ==
    createArchiveCreate(F, source, target, OsCreate(F, target))

\* An Archive that does not validate its source parameter.
ArchiveOpNoSourceCheck(F, source, target) ==
    IF target = <<>> THEN Returned("ErrEmptyTarget", F, <<>>, NoEntries)
    ELSE createArchive(F, source, target)

\* Archive
ArchiveOp(F, source, target) ==
    IF target = <<>> THEN Returned("ErrEmptyTarget", F, <<>>, NoEntries)
    ELSE IF source = <<>> THEN Returned("ErrEmptySource", F, <<>>, NoEntries)
    ELSE createArchive(F, source, target)

\* The walk callback's handle: file, err := os.Open(path) succeeded, and
\* defer file.Close() runs when the callback returns.
walkFnHandles(path) ==
    RunDeferred(DeferClose(OpenHandle(NoHandles, <<"file", path>>), <<"file", path>>))

RECURSIVE walkHandles(_, _)
walkHandles(l, opened) ==
    IF opened = <<>> THEN l
    ELSE walkHandles(During(l, walkFnHandles(Head(opened))), Tail(opened))

\* createArchive's handles: none when os.Create failed; else zipfile and the
\* zip writer archive, each with its deferred Close, and the callback's files.
createArchiveHandles(r) ==
    IF r.calls = <<"Create">> THEN NoHandles
    ELSE walkHandles(DeferClose(OpenHandle(DeferClose(OpenHandle(NoHandles,
                         <<"zipfile">>), <<"zipfile">>), <<"archive">>), <<"archive">>),
                     r.opened)

\* The open and close events of a call of Archive that returned r.
ArchiveHandles(r) ==
    IF r.calls = <<>> THEN <<>> ELSE RunDeferred(createArchiveHandles(r))

----------------------------------------------------------------------------
(* Unarchive *)

\* The file branch of the loop body from os.Create on.
extractFile(F, extractedFilePath, file, f) ==
    IF f.err # Nil THEN [err |-> f.err, fs |-> F]
    ELSE [err |-> Nil, fs |-> WriteData(f.fs, extractedFilePath, file.data)]

\* The loop body once the parent directory was seen to (F is the filesystem
\* after that): a directory entry is made with the entry's mode, a file entry
\* is created and copied.  The result of os.MkdirAll is not looked at.
extractItem(F, extractedFilePath, file) ==
    IF EntryIsDir(file)
    THEN [err |-> Nil, fs |-> MkdirAll(F, extractedFilePath, file.mode).fs]
    ELSE extractFile(F, extractedFilePath, file, OsCreate(F, extractedFilePath))

\* "Check if Directory Path Exists": the parent is made, with mode 0755, when
\* os.Stat says it does not exist; the result of os.MkdirAll is not looked at.
ensureParent(F, parent, st) ==
    IF IsNotExist(st.err) THEN MkdirAll(F, parent, "rwx").fs ELSE F

extractTo(F, extractedFilePath, parent, file) ==
    extractItem(ensureParent(F, parent, Stat(F, parent)), extractedFilePath, file)

extractAt(F, extractedFilePath, file) ==
    extractTo(F, extractedFilePath, Dir(extractedFilePath), file)

\* The directory Unarchive extracts into.
TargetDir(target) == IF target = <<>> THEN <<".", "/">> ELSE target

\* One iteration of Unarchive's loop, for entry file: the error it returns
\* (Nil to go on) and the filesystem it leaves.
ExtractEntry(F, target, file) ==
    extractAt(F, Join(TargetDir(target), file.name), file)

\* Unarchive's loop over zipReader.Reader.File; left holds the entries from
\* the one that failed on.
RECURSIVE ExtractAll(_, _, _)
ExtractNext(target, files, r) ==
    IF r.err # Nil THEN [err |-> r.err, fs |-> r.fs, left |-> files]
    ELSE ExtractAll(r.fs, target, Tail(files))
ExtractAll(F, target, files) ==
    IF files = <<>> THEN [err |-> Nil, fs |-> F, left |-> <<>>]
    ELSE ExtractNext(target, files, ExtractEntry(F, target, Head(files)))

\* zip.OpenReader
ReaderOf(f) ==
    IF f.err # Nil THEN [err |-> f.err, File |-> <<>>]
    ELSE IF f.kind = "dir" THEN [err |-> "EISDIR", File |-> <<>>]
    ELSE IF ~f.data.zip THEN [err |-> "ErrFormat", File |-> <<>>]
    ELSE [err |-> Nil, File |-> f.data.entries]
OpenReader(F, source) == ReaderOf(OsOpen(F, source))

\* Unarchive
Extracted(zipReader, r) ==
    [err |-> r.err, fs |-> r.fs, calls |-> <<"OpenReader", "Extract">>,
     entries |-> zipReader.File, left |-> r.left]
UnarchiveFrom(F, target, zipReader) ==
    IF zipReader.err # Nil
    THEN [err |-> zipReader.err, fs |-> F, calls |-> <<"OpenReader">>,
          entries |-> <<>>, left |-> <<>>]
    ELSE Extracted(zipReader, ExtractAll(F, target, zipReader.File))
UnarchiveOp(F, source, target) == UnarchiveFrom(F, target, OpenReader(F, source))

\* zippedFile, err := file.Open(); defer zippedFile.Close(), for entry k
zippedFileHandles(l, k) ==
    DeferClose(OpenHandle(l, <<"zippedFile", k>>), <<"zippedFile", k>>)

\* An iteration that leaves its output file open: f without defer f.Close().
extractHandlesNoDefer(l, k, created) ==
    IF created THEN OpenHandle(zippedFileHandles(l, k), <<"f", k>>)
    ELSE zippedFileHandles(l, k)

\* One iteration of Unarchive's loop, for entry k: zippedFile and, when
\* os.Create returned a file (created), f with defer f.Close().
extractHandles(l, k, created) ==
    IF created THEN DeferClose(OpenHandle(zippedFileHandles(l, k), <<"f", k>>), <<"f", k>>)
    ELSE zippedFileHandles(l, k)

\* The loop, which ends after the entry that failed (0: none failed); the only
\* failure of an iteration is that of os.Create.
RECURSIVE loopHandles(_, _, _, _)
loopHandles(l, files, k, failed) ==
    IF k > Len(files) \/ (failed # 0 /\ k > failed) THEN l
    ELSE loopHandles(extractHandles(l, k, ~EntryIsDir(files[k]) /\ k # failed),
                     files, k + 1, failed)

\* The open and close events of a call of Unarchive that returned r: none when
\* zip.OpenReader failed (it closes the file it opened); else zipReader with
\* its deferred Close, and the loop's handles.
UnarchiveHandles(r) ==
    IF r.calls = <<"OpenReader">> THEN <<>>
    ELSE RunDeferred(loopHandles(
             DeferClose(OpenHandle(NoHandles, <<"zipReader">>), <<"zipReader">>),
             r.entries, 1,
             IF r.err # Nil THEN Len(r.entries) - Len(r.left) + 1 ELSE 0))

----------------------------------------------------------------------------
(* Download *)

Letters == {"b", "d", "f", "h", "n", "o", "p", "t", "w", "x", "z"}

\* net/url getScheme: the scheme before the first ":", when only letters (and,
\* after the first character, "+", "-", ".") precede it.
RECURSIVE getScheme(_, _)
getScheme(rawURL, i) ==
    IF i > Len(rawURL) THEN [err |-> Nil, scheme |-> <<>>, rest |-> rawURL]
    ELSE IF rawURL[i] \in Letters THEN getScheme(rawURL, i + 1)
    ELSE IF rawURL[i] \in {"+", "-", "."}
         THEN IF i = 1 THEN [err |-> Nil, scheme |-> <<>>, rest |-> rawURL]
              ELSE getScheme(rawURL, i + 1)
    ELSE IF rawURL[i] = ":"
         THEN IF i = 1 THEN [err |-> "ErrMissingScheme", scheme |-> <<>>, rest |-> <<>>]
              ELSE [err |-> Nil, scheme |-> SubSeq(rawURL, 1, i - 1),
                    rest |-> SubSeq(rawURL, i + 1, Len(rawURL))]
    ELSE [err |-> Nil, scheme |-> <<>>, rest |-> rawURL]

\* The host of "//host/path": the authority a, up to its first "/".
HostOf(a) ==
    IF \E i \in 1..Len(a) : a[i] = "/"
    THEN SubSeq(a, 1, (CHOOSE i \in 1..Len(a) :
                          a[i] = "/" /\ \A j \in 1..(i - 1) : a[j] # "/") - 1)
    ELSE a
Authority(rest) == HostOf(SubSeq(rest, 3, Len(rest)))

\* net/url parse(rawURL, viaRequest), after getScheme returned s
NoURL == [err |-> Nil, scheme |-> <<>>, host |-> <<>>]
parseRest(rawURL, viaRequest, s) ==
    IF rawURL = <<>> /\ viaRequest THEN [NoURL EXCEPT !.err = "ErrEmptyURL"]
    ELSE IF s.err # Nil THEN [NoURL EXCEPT !.err = s.err]
    ELSE IF ~HasPrefix(s.rest, <<"/">>)
         THEN IF s.scheme # <<>> THEN [NoURL EXCEPT !.scheme = s.scheme]
              ELSE IF viaRequest THEN [NoURL EXCEPT !.err = "ErrInvalidURI"]
              ELSE NoURL
    ELSE IF (s.scheme # <<>> \/ (~viaRequest /\ ~HasPrefix(s.rest, <<"/", "/", "/">>)))
            /\ HasPrefix(s.rest, <<"/", "/">>)
         THEN [NoURL EXCEPT !.scheme = s.scheme, !.host = Authority(s.rest)]
    ELSE [NoURL EXCEPT !.scheme = s.scheme]
parse(rawURL, viaRequest) == parseRest(rawURL, viaRequest, getScheme(rawURL, 1))

\* url.ParseRequestURI
ParseRequestURI(rawURL) == parse(rawURL, TRUE)

\* http.Get: the request is refused before it is sent unless the URL has scheme
\* http or https and a host; net is what the network then answers ("fail", or
\* a response with a status and a body).
Send(u, net) ==
    IF u.err # Nil THEN [err |-> u.err, body |-> EmptyData]
    ELSE IF u.scheme \notin {<<"h", "t", "t", "p">>, <<"h", "t", "t", "p", "s">>}
    THEN [err |-> "ErrUnsupportedScheme", body |-> EmptyData]
    ELSE IF u.host = <<>> THEN [err |-> "ErrNoHost", body |-> EmptyData]
    ELSE IF net.status = "fail" THEN [err |-> "ErrNet", body |-> EmptyData]
    ELSE [err |-> Nil, body |-> net.body]
HttpGet(source, net) == Send(parse(source, FALSE), net)

\* Download, step by step: parse, GET, create, copy.
DownloadCopy(target, resp, out) ==
    IF out.err # Nil THEN [err |-> out.err, fs |-> out.fs, calls |-> <<"Get", "Create">>]
    ELSE [err |-> Nil, fs |-> WriteData(out.fs, target, resp.body),
          calls |-> <<"Get", "Create">>]

DownloadCreate(F, target, resp) ==
    IF resp.err # Nil THEN [err |-> resp.err, fs |-> F, calls |-> <<"Get">>]
    ELSE DownloadCopy(target, resp, OsCreate(F, target))

\* A Download that creates the target file before it gets the source.
DownloadGetCreateFirst(F, source, target, net, u) ==
    IF u.err # Nil THEN [err |-> u.err, fs |-> F, calls |-> <<>>]
    ELSE DownloadCreate(OsCreate(F, target).fs, target, HttpGet(source, net))

DownloadGet(F, source, target, net, u) ==
    IF u.err # Nil THEN [err |-> u.err, fs |-> F, calls |-> <<>>]
    ELSE DownloadCreate(F, target, HttpGet(source, net))

DownloadOp(F, source, target, net) ==
    DownloadGet(F, source, target, net, ParseRequestURI(source))

\* out, err := os.Create(target); defer out.Close()
outHandles(l, created) ==
    IF created THEN DeferClose(OpenHandle(l, <<"out">>), <<"out">>) ELSE l

\* The open and close events of a call of Download that returned r: none when
\* the URL was refused or the GET failed; else resp.Body with its deferred
\* Close and, when os.Create returned a file, out.
DownloadHandles(r) ==
    IF r.calls # <<"Get", "Create">> THEN <<>>
    ELSE RunDeferred(outHandles(
             DeferClose(OpenHandle(NoHandles, <<"resp.Body">>), <<"resp.Body">>),
             r.err = Nil))

----------------------------------------------------------------------------
(* Package fs: the helpers, and the os functions they call.  A helper       *)
(* returns err, the filesystem it leaves and, where it has one, a value.    *)

\* The nodes directly in directory a.
ChildrenOf(F, a) == {p \in DOMAIN F : p # a /\ Dir(p) = a}

\* unlink or rmdir of node a, which holds nothing: a's directory must be
\* writable and searchable.
unlinkAt(F, a) ==
    IF ~Writable(F[Dir(a)].mode) \/ ~Searchable(F[Dir(a)].mode)
    THEN [err |-> "EACCES", fs |-> F]
    ELSE [err |-> Nil, fs |-> [p \in DOMAIN F \ {a} |-> F[p]]]

\* os.Remove: unlink, else rmdir
RemoveAt(F, r, e) ==
    IF e # Nil THEN [err |-> e, fs |-> F]
    ELSE IF unlinkAt(F, r.abs).err # Nil THEN unlinkAt(F, r.abs)
    ELSE IF ChildrenOf(F, r.abs) # {} THEN [err |-> "ENOTEMPTY", fs |-> F]
    ELSE unlinkAt(F, r.abs)
OsRemove(F, path) == RemoveAt(F, Resolve(F, path), LookupErr(F, Resolve(F, path)))

\* os.RemoveAll's removeAllFrom on node a: a file is unlinked; a directory
\* that can be read has its nodes removed one by one, and is then removed
\* itself.  The first error met is kept, and forgotten when a was removed.
RECURSIVE removeAllFrom(_, _)
RECURSIVE removeEach(_, _, _)
removeEachNext(names, err, r) ==
    removeEach(r.fs, Tail(names), IF err # Nil THEN err ELSE r.err)
removeEach(F, names, err) ==
    IF names = <<>> THEN [err |-> err, fs |-> F]
    ELSE removeEachNext(names, err, removeAllFrom(F, Head(names)))
rmdirAfter(a, r) ==
    IF ChildrenOf(r.fs, a) = {} /\ unlinkAt(r.fs, a).err = Nil THEN unlinkAt(r.fs, a)
    ELSE IF r.err # Nil THEN r
    ELSE IF ChildrenOf(r.fs, a) # {} THEN [err |-> "ENOTEMPTY", fs |-> r.fs]
    ELSE unlinkAt(r.fs, a)
removeAllFrom(F, a) ==
    IF F[a].kind # "dir" THEN unlinkAt(F, a)
    ELSE IF ~Readable(F[a].mode) THEN rmdirAfter(a, [err |-> "EACCES", fs |-> F])
    ELSE rmdirAfter(a, removeEach(F, SortNames(ChildrenOf(F, a)), Nil))

\* os.RemoveAll: a path that does not exist is no error.
RemoveAllAt(F, r, e) ==
    IF e = "ENOENT" THEN [err |-> Nil, fs |-> F]
    ELSE IF e # Nil THEN [err |-> e, fs |-> F]
    ELSE removeAllFrom(F, r.abs)
RemoveAll(F, path) == RemoveAllAt(F, Resolve(F, path), LookupErr(F, Resolve(F, path)))

\* os.Chmod
ChmodAt(F, r, e, mode) ==
    IF e # Nil THEN [err |-> e, fs |-> F]
    ELSE [err |-> Nil, fs |-> [F EXCEPT ![r.abs].mode = mode]]
Chmod(F, path, mode) ==
    ChmodAt(F, Resolve(F, path), LookupErr(F, Resolve(F, path)), mode)

\* os.Symlink(source, target): target becomes a link that holds source.
SymlinkAt(F, source, r) ==
    IF r.up # Nil THEN [err |-> r.up, fs |-> F]
    ELSE IF r.abs \in DOMAIN F THEN [err |-> "EEXIST", fs |-> F]
    ELSE IF ~Writable(F[r.parent].mode) THEN [err |-> "EACCES", fs |-> F]
    ELSE [err |-> Nil,
          fs |-> (r.abs :> [kind |-> "symlink", mode |-> "rwx", data |-> EmptyData,
                            link |-> source]) @@ F]
Symlink(F, source, target) == SymlinkAt(F, source, Resolve(F, target))

\* ioutil.ReadFile: open, then read, which a directory refuses.
readAll(F, f) ==
    IF f.err # Nil THEN [err |-> f.err, fs |-> F, value |-> EmptyData]
    ELSE IF f.kind = "dir" THEN [err |-> "EISDIR", fs |-> F, value |-> EmptyData]
    ELSE [err |-> Nil, fs |-> F, value |-> f.data]

\* The helpers' own errors: fmt.Errorf("... already exists"), ("... doesn't exist")
AlreadyExists(F) == [err |-> "already exists", fs |-> F]
DoesntExist(F) == [err |-> "doesn't exist", fs |-> F]

\* CreateDirectory
CreateDirectoryOp(F, path, mode) ==
    IF Stat(F, path).err = Nil THEN AlreadyExists(F) ELSE Mkdir(F, path, mode)

\* DeleteDirectory and DeleteFile
DeleteOp(F, path) ==
    IF Stat(F, path).err # Nil THEN DoesntExist(F) ELSE OsRemove(F, path)

\* DeleteDirectoryAll
DeleteDirectoryAllOp(F, path) ==
    IF Stat(F, path).err # Nil THEN DoesntExist(F) ELSE RemoveAll(F, path)

\* CreateFile and WriteFile from os.Create on: the file is created, data is
\* written to it (WriteFile), and its permissions are set.
createdFile(path, mode, data, file) ==
    IF file.err # Nil THEN file
    ELSE Chmod(WriteData(file.fs, path, data), path, mode)

\* A CreateFile that creates the file before it looks for it.
CreateFileOpCreateFirst(F, path, mode) ==
    IF Stat(OsCreate(F, path).fs, path).err = Nil THEN AlreadyExists(OsCreate(F, path).fs)
    ELSE createdFile(path, mode, EmptyData, OsCreate(F, path))

\* CreateFile
CreateFileOp(F, path, mode) ==
    IF Stat(F, path).err = Nil THEN AlreadyExists(F)
    ELSE createdFile(path, mode, EmptyData, OsCreate(F, path))

\* WriteFile
WriteFileOp(F, path, mode, data) ==
    IF Stat(F, path).err = Nil THEN AlreadyExists(F)
    ELSE createdFile(path, mode, data, OsCreate(F, path))

\* ReadFile
ReadFileOp(F, path) ==
    IF Stat(F, path).err # Nil
    THEN [err |-> "doesn't exist", fs |-> F, value |-> EmptyData]
    ELSE readAll(F, OsOpen(F, path))

\* CreateSymlink
CreateSymlinkOp(F, source, target) ==
    IF Stat(F, source).err # Nil THEN DoesntExist(F) ELSE Symlink(F, source, target)

\* PathExists
PathExistsOp(F, path) ==
    IF Stat(F, path).err = Nil THEN [err |-> Nil, fs |-> F, value |-> TRUE]
    ELSE IF IsNotExist(Stat(F, path).err) THEN [err |-> Nil, fs |-> F, value |-> FALSE]
    ELSE [err |-> Stat(F, path).err, fs |-> F, value |-> FALSE]

\* PathNotExists
PathNotExistsOp(F, path) ==
    IF IsNotExist(Stat(F, path).err) THEN [err |-> Nil, fs |-> F, value |-> TRUE]
    ELSE IF Stat(F, path).err = Nil THEN [err |-> Nil, fs |-> F, value |-> TRUE]
    ELSE [err |-> Stat(F, path).err, fs |-> F, value |-> FALSE]

----------------------------------------------------------------------------
(* Package log.  Operands of the formatting functions are strings, at most  *)
(* one to a call.                                                           *)

\* fmt's "%!verb(what)"
Bang(verb, what) == <<"%", "!">> \o verb \o <<"(">> \o what \o <<")">>

\* fmt: the operands left over when the format is used up
Extra(a) ==
    IF a = <<>> THEN <<>>
    ELSE Bang(<<>>, <<"E", "X", "T", "R", "A", " ", "s", "t", "r", "i", "n", "g", "=">>
                    \o Head(a))

\* fmt's doPrintf from position i of format, with operands a left.  doVerb
\* is the step at a "%" that another character follows.
RECURSIVE doPrintf(_, _, _)
doVerb(format, i, a) ==
    IF format[i + 1] = "%" THEN <<"%">> \o doPrintf(format, i + 2, a)
    ELSE IF a = <<>>
         THEN Bang(<<format[i + 1]>>, <<"M", "I", "S", "S", "I", "N", "G">>)
              \o doPrintf(format, i + 2, a)
    ELSE IF format[i + 1] \in {"v", "s"} THEN Head(a) \o doPrintf(format, i + 2, Tail(a))
    ELSE Bang(<<format[i + 1]>>, <<"s", "t", "r", "i", "n", "g", "=">> \o Head(a))
         \o doPrintf(format, i + 2, Tail(a))
doPrintf(format, i, a) ==
    IF i > Len(format) THEN Extra(a)
    ELSE IF format[i] # "%" THEN <<format[i]>> \o doPrintf(format, i + 1, a)
    ELSE IF i = Len(format) THEN Bang(<<>>, <<"N", "O", "V", "E", "R", "B">>) \o Extra(a)
    ELSE doVerb(format, i, a)

\* fmt.Sprintf
Sprintf(format, a) == doPrintf(format, 1, a)

\* aurora.Bright<Color>(s).String(): s between the color's escape sequence
\* and the reset sequence when colors are on, else s.
Colorize(color, s) ==
    IF aurora THEN <<"ESC", "[">> \o color \o <<"m">> \o s \o <<"ESC", "[", "0", "m">>
    ELSE s
BrightCyan == <<"9", "6">>
BrightGreen == <<"9", "2">>
BrightYellow == <<"9", "3">>
BrightRed == <<"9", "1">>

\* log.Printf with flags 0: the formatted text, ended by a newline when it
\* does not end with one.
logOutput(s) == IF s = <<>> \/ s[Len(s)] # "\n" THEN s \o <<"\n">> ELSE s
logPrintf(format, a) == logOutput(Sprintf(format, a))

\* log.Printf(fmt.Sprintf(aurora.Bright<Color>(prefix + "%v").String(), message)):
\* the text formatted with the message is the format of log.Printf.
colorPrintf(color, prefix, message) ==
    logPrintf(Sprintf(Colorize(color, prefix \o <<"%", "v">>), <<message>>), <<>>)

\* log.Printf(prefix + "%v", message)
plainPrintf(prefix, message) == logPrintf(prefix \o <<"%", "v">>, <<message>>)

INFO == <<"I", "N", "F", "O", ":", " ">>
DEBUG == <<"D", "E", "B", "U", "G", ":", " ">>
TRACE == <<"T", "R", "A", "C", "E", ":", " ">>

\* The functions that log whatever the flags are, with color and prefix.
\* Panic and Fatal write the same way before they panic or exit.
Levels ==
    {[call |-> "Print", callf |-> "Printf", color |-> BrightCyan, prefix |-> <<>>],
     [call |-> "Success", callf |-> "Successf", color |-> BrightGreen,
      prefix |-> <<"S", "U", "C", "C", "E", "S", "S", ":", " ">>],
     [call |-> "Warning", callf |-> "Warningf", color |-> BrightYellow,
      prefix |-> <<"W", "A", "R", "N", "I", "N", "G", ":", " ">>],
     [call |-> "Failure", callf |-> "Failuref", color |-> BrightRed,
      prefix |-> <<"F", "A", "I", "L", "U", "R", "E", ":", " ">>],
     [call |-> "Error", callf |-> "Errorf", color |-> BrightRed, prefix |-> <<"E", "R", "R", "O", "R", ":", " ">>],
     [call |-> "Panic", callf |-> "Panicf", color |-> BrightRed, prefix |-> <<"P", "A", "N", "I", "C", ":", " ">>],
     [call |-> "Fatal", callf |-> "Fatalf", color |-> BrightRed, prefix |-> <<"F", "A", "T", "A", "L", ":", " ">>]}

\* Messages: plain, ending with a newline, holding a percent sign.
Messages == {<<"a">>, <<"a", "\n">>, <<"a", "%">>}

\* Formats with their operands.
Formats ==
    {[format |-> <<"a", "%", "v">>, a |-> <<<<"b">>>>],
     [format |-> <<"a", "%", "s", "\n">>, a |-> <<<<"b">>>>]}

\* A call returned: what it was called with and what it wrote.
Logged(call, message, text) ==
    /\ written' = [call |-> call, message |-> message, text |-> text]
    /\ UNCHANGED <<fs, hist, aurora>>

Enabled(v, d, t, call) ==
    /\ verboseEnabled' = v
    /\ debugEnabled' = d
    /\ traceEnabled' = t
    /\ enabled' = enabled \cup {call}
    /\ Logged(call, <<>>, <<>>)

\* The flags and the Enable functions called are as they were.
Printed(call, message, text) ==
    /\ Logged(call, message, text)
    /\ UNCHANGED <<verboseEnabled, debugEnabled, traceEnabled, enabled>>

\* An EnableDebug that turns verbose logging on as well.
EnableDebugAndVerbose == Enabled(TRUE, TRUE, traceEnabled, "EnableDebug")

EnableVerbose == Enabled(TRUE, debugEnabled, traceEnabled, "EnableVerbose")
EnableDebug == Enabled(verboseEnabled, TRUE, traceEnabled, "EnableDebug")
EnableTrace == Enabled(verboseEnabled, debugEnabled, TRUE, "EnableTrace")

VPrint ==
    \E message \in Messages :
        Printed("VPrint", message,
                IF verboseEnabled THEN colorPrintf(BrightCyan, INFO, message) ELSE <<>>)

VPrintf ==
    \E f \in Formats :
        Printed("VPrintf", Sprintf(f.format, f.a),
                IF verboseEnabled
                THEN colorPrintf(BrightCyan, INFO, Sprintf(f.format, f.a)) ELSE <<>>)

Debug ==
    \E message \in Messages :
        Printed("Debug", message,
                IF debugEnabled THEN plainPrintf(DEBUG, message) ELSE <<>>)

Debugf ==
    \E f \in Formats :
        Printed("Debugf", Sprintf(f.format, f.a),
                IF debugEnabled THEN plainPrintf(DEBUG, Sprintf(f.format, f.a)) ELSE <<>>)

Trace ==
    \E message \in Messages :
        Printed("Trace", message,
                IF traceEnabled THEN plainPrintf(TRACE, message) ELSE <<>>)

Tracef ==
    \E f \in Formats :
        Printed("Tracef", Sprintf(f.format, f.a),
                IF traceEnabled THEN plainPrintf(TRACE, Sprintf(f.format, f.a)) ELSE <<>>)

\* Print, Success, Warning, Failure, Error, Panic, Fatal
LogPrint ==
    \E level \in Levels, message \in Messages :
        Printed(level.call, message, colorPrintf(level.color, level.prefix, message))

\* Printf, Successf, Warningf, Failuref, Errorf, Panicf, Fatalf
LogPrintf ==
    \E level \in Levels, f \in Formats :
        Printed(level.callf, Sprintf(f.format, f.a),
                colorPrintf(level.color, level.prefix, Sprintf(f.format, f.a)))

\* The process starts: the flags have Go's zero value, and init() has set
\* aurora from whether stdout is a terminal.
LogStart(terminal) ==
    /\ aurora = terminal
    /\ verboseEnabled = FALSE
    /\ debugEnabled = FALSE
    /\ traceEnabled = FALSE
    /\ enabled = {}
    /\ written = [call |-> "init", message |-> <<>>, text |-> <<>>]

----------------------------------------------------------------------------
(* The environment: the filesystems the process may start in and the        *)
(* arguments the operations are called with.                                *)

\* How many operations a behaviour performs.
MaxOps == 2

P_f == <<"/", "w", "/", "f">>
P_fb == <<"/", "w", "/", "f", "/", "b">>
P_ff == <<"/", "w", "/", "f", "/", "f">>
P_fd == <<"/", "w", "/", "f", "/", "d">>
P_fdb == <<"/", "w", "/", "f", "/", "d", "/", "b">>
P_fdz == <<"f", "/", "d", "/", "z">>
P_z == <<"/", "z">>
P_nz == <<"/", "n", "/", "z">>

\* The source tree /w/f: a file b, a directory d holding a file b, and
\* possibly a node f (a file, or an empty directory) named like the tree's
\* root.
SourceTree(bMode, ff, dMode) ==
    (Root :> DirNode("rwx")) @@ (Cwd :> DirNode("rwx")) @@ (P_f :> DirNode("rwx"))
    @@ (P_fb :> FileNode(bMode, PlainData("x")))
    @@ (P_fd :> DirNode(dMode)) @@ (P_fdb :> FileNode("rw-", PlainData("y")))
    @@ (IF ff = "file" THEN (P_ff :> FileNode("rw-", PlainData("y")))
        ELSE IF ff = "dir" THEN (P_ff :> DirNode("rwx"))
        ELSE <<>>)

InitialFilesystems ==
    {SourceTree("rw-", ff, dMode) : ff \in {"none", "file", "dir"},
                                    dMode \in {"rwx", "r-x", "---"}}
    \cup {SourceTree("---", "none", "rwx")}

\* Sources of Archive: empty, relative, absolute, with a trailing separator,
\* ".", a single file, a missing path, and the node named like the root.
ArchiveSources ==
    {<<>>, <<"f">>, P_f, <<"f", "/">>, <<".">>, <<"f", "/", "b">>, <<"n">>, P_ff}

ArchiveArgs ==
    {<<source, P_z>> : source \in ArchiveSources}
    \cup {<<<<"f">>, <<>>>>, <<<<>>, <<>>>>, <<<<"n">>, P_fdz>>}

UnarchiveArgs ==
    {<<P_z, target>> : target \in {<<>>, <<"/", "o">>, <<"/", "o", "/", "p">>,
                                   <<"f", "/", "d", "/", "o">>}}
    \cup {<<<<"/", "n">>, <<"/", "o">>>>, <<<<"f", "/", "b">>, <<"/", "o">>>>}

NoNet == [status |-> "none", body |-> EmptyData]

\* A container as a server may hand it out: a file listed before the entry of
\* its directory, which is read-only, and a name that climbs out with "..".
ServedEntries ==
    <<Entry(<<"d", "/", "b">>, FALSE, "rw-", PlainData("x")),
      Entry(<<"d", "/">>, TRUE, "r-x", EmptyData),
      Entry(<<".", ".", "/", "p">>, FALSE, "rw-", PlainData("y"))>>

NetAnswers ==
    {[status |-> "fail", body |-> EmptyData],
     [status |-> "200", body |-> ZipData(ServedEntries)],
     [status |-> "404", body |-> PlainData("not found")]}

U_http == <<"h", "t", "t", "p", ":", "/", "/", "h", "/", "z">>

\* URLs that are no absolute HTTP(S) URI: empty, "not-x", a bare absolute
\* path, no scheme before the colon, an ftp URL, an http URL without a host.
BadURLs ==
    {<<>>, <<"n", "o", "t", "-", "x">>, <<"/", "z">>, <<":", "x">>,
     <<"f", "t", "p", ":", "/", "/", "h", "/", "z">>, <<"h", "t", "t", "p", ":", "z">>}

DownloadArgs ==
    {<<source, P_z, NoNet>> : source \in BadURLs}
    \cup {<<U_http, P_z, net>> : net \in NetAnswers}
    \cup {<<U_http, P_nz, net>> : net \in {n \in NetAnswers : n.status = "200"}}

----------------------------------------------------------------------------
(* The state machine: operations are called one after another on the same  *)
(* filesystem.  hist records each call: its arguments, the filesystem it   *)
(* started from (pre) and left (post), and what it returned.               *)

Call(op, a, net, r, entries, visited, walkErr, left, handles) ==
    [op |-> op, source |-> a[1], target |-> a[2], net |-> net,
     err |-> r.err, calls |-> r.calls, pre |-> fs, post |-> r.fs,
     entries |-> entries, visited |-> visited, walkErr |-> walkErr, left |-> left,
     handles |-> handles]

Init ==
    /\ fs \in InitialFilesystems
    /\ hist = <<>>
    /\ LogStart(FALSE)

Called(r, call) ==
    /\ fs' = r.fs
    /\ hist' = Append(hist, call)
    /\ UNCHANGED logVars

ArchiveCalled(a, r) ==
    Called(r, Call("Archive", a, NoNet, r, r.entries, r.visited, r.walkErr, <<>>,
                   ArchiveHandles(r)))

Archive ==
    /\ Len(hist) < MaxOps
    /\ \E a \in ArchiveArgs : ArchiveCalled(a, ArchiveOp(fs, a[1], a[2]))

UnarchiveCalled(a, r) ==
    Called(r, Call("Unarchive", a, NoNet, r, r.entries, <<>>, Nil, r.left,
                   UnarchiveHandles(r)))

Unarchive ==
    /\ Len(hist) < MaxOps
    /\ \E a \in UnarchiveArgs : UnarchiveCalled(a, UnarchiveOp(fs, a[1], a[2]))

DownloadCalled(a, r) ==
    Called(r, Call("Download", a, a[3], r, <<>>, <<>>, Nil, <<>>,
                   DownloadHandles(r)))

Download ==
    /\ Len(hist) < MaxOps
    /\ \E a \in DownloadArgs : DownloadCalled(a, DownloadOp(fs, a[1], a[2], a[3]))

Next == Archive \/ Unarchive \/ Download

Spec == Init /\ [][Next]_vars

\* The fs helpers, called one after another on paths of the source tree.
\* How many helper calls a behaviour performs.
MaxFsOps == 2

FsPaths ==
    {<<"f", "/", "b">>, <<"f", "/", "d">>, <<"f", "/", "d", "/", "b">>, <<"n">>}
FsModes == {"rwx"}

FsCalled(op, path, r) ==
    /\ Len(hist) < MaxFsOps
    /\ fs' = r.fs
    /\ hist' = Append(hist, [op |-> op, path |-> path, err |-> r.err,
                             pre |-> fs, post |-> r.fs,
                             value |-> IF "value" \in DOMAIN r THEN r.value ELSE Nil])
    /\ UNCHANGED logVars

CreateDirectory ==
    \E path \in FsPaths, mode \in FsModes :
        FsCalled("CreateDirectory", path, CreateDirectoryOp(fs, path, mode))
DeleteDirectory ==
    \E path \in FsPaths : FsCalled("DeleteDirectory", path, DeleteOp(fs, path))
DeleteDirectoryAll ==
    \E path \in FsPaths :
        FsCalled("DeleteDirectoryAll", path, DeleteDirectoryAllOp(fs, path))
CreateFile ==
    \E path \in FsPaths, mode \in FsModes :
        FsCalled("CreateFile", path, CreateFileOp(fs, path, mode))
DeleteFile ==
    \E path \in FsPaths : FsCalled("DeleteFile", path, DeleteOp(fs, path))
ReadFile ==
    \E path \in FsPaths : FsCalled("ReadFile", path, ReadFileOp(fs, path))
WriteFile ==
    \E path \in FsPaths, mode \in FsModes :
        FsCalled("WriteFile", path, WriteFileOp(fs, path, mode, PlainData("z")))
CreateSymlink ==
    \E source \in FsPaths :
        FsCalled("CreateSymlink", source, CreateSymlinkOp(fs, source, <<"l">>))
PathExists ==
    \E path \in FsPaths : FsCalled("PathExists", path, PathExistsOp(fs, path))
PathNotExists ==
    \E path \in FsPaths : FsCalled("PathNotExists", path, PathNotExistsOp(fs, path))

FsInit ==
    /\ fs \in {F \in InitialFilesystems : P_ff \notin DOMAIN F}
    /\ hist = <<>>
    /\ LogStart(FALSE)

FsNext ==
    \/ CreateDirectory \/ DeleteDirectory \/ DeleteDirectoryAll
    \/ CreateFile \/ DeleteFile \/ ReadFile \/ WriteFile \/ CreateSymlink
    \/ PathExists \/ PathNotExists

FsSpec == FsInit /\ [][FsNext]_vars

\* The logger's calls, in any number and order.
LogInit ==
    /\ fs = SourceTree("rw-", "none", "rwx")
    /\ hist = <<>>
    /\ \E terminal \in BOOLEAN : LogStart(terminal)

LogNext ==
    \/ EnableVerbose \/ EnableDebug \/ EnableTrace
    \/ VPrint \/ VPrintf \/ Debug \/ Debugf \/ Trace \/ Tracef
    \/ LogPrint \/ LogPrintf

LogSpec == LogInit /\ [][LogNext]_vars

----------------------------------------------------------------------------
(* Properties *)

Calls == {hist[i] : i \in 1..Len(hist)}
ArchiveCalls == {c \in Calls : c.op = "Archive"}
UnarchiveCalls == {c \in Calls : c.op = "Unarchive"}
DownloadCalls == {c \in Calls : c.op = "Download"}

\* The files of F below directory root, and a path's location relative to root.
FilesUnder(F, root) ==
    {p \in DOMAIN F : F[p].kind = "file" /\ HasPrefix(p, root \o <<Separator>>)}
Rel(p, root) == SubSeq(p, Len(root) + 2, Len(p))

\* The nodes of F without their permission bits.
Shape(F) == [p \in DOMAIN F |-> [kind |-> F[p].kind, data |-> F[p].data]]

\* A call of Archive that got as far as the walk of a source directory.
WalkedDirectory(c) ==
    /\ c.op = "Archive"
    /\ c.calls = <<"Create", "Stat", "Walk">>
    /\ Stat(c.pre, c.source).kind = "dir"

\* The directory Unarchive extracts into, as an absolute path.
ExtractionRoot(target) == Abs(TargetDir(target))

\* Where Unarchive puts entry e of a container extracted into target.
ExtractionPath(target, e) == Join(TargetDir(target), e.name)

\* Entry e of a container extracted into target is there in F.
Extracted_In(F, target, e) ==
    /\ Stat(F, ExtractionPath(target, e)).err = Nil
    /\ Stat(F, ExtractionPath(target, e)).kind = (IF EntryIsDir(e) THEN "dir" ELSE "file")

\* C1: round trip.  Archive(T, z) of a directory T, whose walk met no error,
\* and then Unarchive(z, d) into a fresh d, both returning success, leave
\* under d one file for every file of T, at a path that ends with the file's
\* path relative to T and with the same content, and no other file.
C1_RoundTrip ==
    \A i \in 1..(Len(hist) - 1) :
        (/\ hist[i].op = "Archive" /\ hist[i].err = Nil /\ hist[i].walkErr = Nil
         /\ hist[i + 1].op = "Unarchive" /\ hist[i + 1].err = Nil
         /\ hist[i + 1].source = hist[i].target
         /\ Stat(hist[i].pre, hist[i].source).kind = "dir"
         /\ ExtractionRoot(hist[i + 1].target) \notin DOMAIN hist[i + 1].pre)
        => /\ \A p \in FilesUnder(hist[i].pre, Abs(hist[i].source)) :
                \E q \in FilesUnder(hist[i + 1].post, ExtractionRoot(hist[i + 1].target)) :
                    /\ HasSuffix(q, <<Separator>> \o Rel(p, Abs(hist[i].source)))
                    /\ hist[i + 1].post[q].data = hist[i].pre[p].data
           /\ Cardinality(FilesUnder(hist[i + 1].post, ExtractionRoot(hist[i + 1].target)))
                = Cardinality(FilesUnder(hist[i].pre, Abs(hist[i].source)))

\* C2: an error met while Archive visits the source tree (the callback of the
\* walk returned it) is the error Archive returns; Archive returns success
\* only when the walk ended without error.
C2_WalkErrorReturned ==
    \A c \in ArchiveCalls : c.walkErr # Nil => c.err = c.walkErr

\* C3: when the source of Archive is a directory with base name B other than
\* ".", every entry is named B joined with the location, relative to the
\* source, of a node below the source (plus "/" for a directory); none is
\* named B or B/.
C3_NamesUnderBase ==
    \A c \in ArchiveCalls :
        (WalkedDirectory(c) /\ Base(c.source) # <<".">>)
        => \A k \in 1..Len(c.entries) :
              /\ \E p \in DOMAIN c.pre :
                    /\ HasPrefix(p, Abs(c.source) \o <<Separator>>)
                    /\ c.entries[k].name =
                          Base(c.source) \o <<"/">> \o Rel(p, Abs(c.source))
                             \o (IF c.pre[p].kind = "dir" THEN <<"/">> ELSE <<>>)
              /\ c.entries[k].name \notin {Base(c.source), Base(c.source) \o <<"/">>}

\* C4: in every container Archive writes, every entry name is relative (does
\* not begin with a separator) and an entry is a directory marker exactly when
\* its name ends with one trailing slash.
C4_NamesRelative ==
    \A c \in ArchiveCalls :
        \A k \in 1..Len(c.entries) :
            /\ c.entries[k].name # <<>>
            /\ Head(c.entries[k].name) # "/"
            /\ c.entries[k].isDir <=> HasSuffix(c.entries[k].name, <<"/">>)
            /\ ~HasSuffix(c.entries[k].name, <<"/", "/">>)

\* C5: Archive with an empty source or an empty target returns an error
\* without a call on the filesystem, which it leaves as it was.
C5_EmptyArgumentRejected ==
    \A c \in ArchiveCalls :
        (c.source = <<>> \/ c.target = <<>>)
        => /\ c.err # Nil
           /\ c.calls = <<>>
           /\ c.post = c.pre

\* C5 witness: Archive was called with an empty source and a target that is
\* an existing container with entries.
C5_Witness ==
    \E c \in ArchiveCalls :
        /\ c.source = <<>>
        /\ c.target = P_z
        /\ P_z \in DOMAIN c.pre
        /\ c.pre[P_z].data.entries # <<>>

\* A call of Archive, with both arguments given, whose source does not exist.
MissingSource(c) ==
    /\ c.op = "Archive"
    /\ c.source # <<>> /\ c.target # <<>>
    /\ Stat(c.pre, c.source).err = "ENOENT"

Reordered(entries, perm) == [k \in 1..Len(entries) |-> entries[perm[k]]]

\* C7: Unarchive tolerates any order of the entries.  When the container can
\* be extracted in some order, it is extracted in every order, with the same
\* directories and files with the same contents.
C7_AnyOrder ==
    \A c \in {u \in UnarchiveCalls : u.calls = <<"OpenReader", "Extract">>} :
        \A perm \in Permutations(1..Len(c.entries)) :
            /\ c.err = Nil
                 => /\ ExtractAll(c.pre, c.target, Reordered(c.entries, perm)).err = Nil
                    /\ Shape(ExtractAll(c.pre, c.target, Reordered(c.entries, perm)).fs)
                         = Shape(c.post)
            /\ ExtractAll(c.pre, c.target, Reordered(c.entries, perm)).err = Nil
                 => c.err = Nil

\* C8: after a successful Unarchive of a container with entries into a target
\* directory that did not exist, every entry's extraction path exists.
C8_TargetCreated ==
    \A c \in UnarchiveCalls :
        (/\ c.err = Nil
         /\ c.entries # <<>>
         /\ Stat(c.pre, TargetDir(c.target)).err # Nil)
        => \A k \in 1..Len(c.entries) : Extracted_In(c.post, c.target, c.entries[k])

\* C9: Unarchive returns success only when the directory or file of every
\* entry was created; when it fails, at some entry, every file entry before
\* that one is on disk with the entry's content.
C9_FailureReturned ==
    \A c \in UnarchiveCalls :
        /\ (c.calls = <<"OpenReader", "Extract">> /\ c.err = Nil)
             => \A k \in 1..Len(c.entries) : Extracted_In(c.post, c.target, c.entries[k])
        /\ (c.calls = <<"OpenReader", "Extract">> /\ c.err # Nil)
             => \A k \in 1..(Len(c.entries) - Len(c.left)) :
                   ~EntryIsDir(c.entries[k])
                   => /\ Extracted_In(c.post, c.target, c.entries[k])
                      /\ \E j \in k..(Len(c.entries) - Len(c.left)) :
                            /\ ExtractionPath(c.target, c.entries[j])
                                 = ExtractionPath(c.target, c.entries[k])
                            /\ c.post[Abs(ExtractionPath(c.target, c.entries[k]))].data
                                 = c.entries[j].data

\* C10: Download with a source that is no absolute HTTP(S) URI, or whose GET
\* fails, returns an error and neither creates nor changes the target (nor
\* anything else).
C10_DownloadRefused ==
    \A c \in DownloadCalls :
        (c.source \in BadURLs \/ c.net.status = "fail")
        => /\ c.err # Nil
           /\ c.post = c.pre

\* C10 witness: Download was called with a bare absolute path as source and a
\* target that is an existing container.
C10_Witness ==
    \E c \in DownloadCalls :
        /\ c.source = <<"/", "z">>
        /\ c.err # Nil
        /\ Abs(c.target) \in DOMAIN c.pre

\* The handles a call left open: opened, and not closed afterwards.
StillOpen(events) ==
    {events[i][2] : i \in {j \in 1..Len(events) :
        /\ events[j][1] = "open"
        /\ \A n \in (j + 1)..Len(events) : events[n] # <<"close", events[j][2]>>}}

\* C11: every file, archive or response handle that Download, Archive or
\* Unarchive opened is closed when the call has returned, with success or with
\* an error.
C11_HandlesReleased ==
    \A c \in Calls : StillOpen(c.handles) = {}

\* C11 witness: an Unarchive returned an error from an entry after it had
\* created the file of an earlier entry.
C11_Witness ==
    \E c \in UnarchiveCalls :
        /\ c.err # Nil
        /\ \E i \in 1..Len(c.handles) :
               c.handles[i][1] = "open" /\ c.handles[i][2][1] = "f"

\* The lines of a text: its newlines.
LineCount(text) == Cardinality({i \in 1..Len(text) : text[i] = "\n"})

\* A text without the color escape sequence it begins with.
AfterColor(text) ==
    IF text # <<>> /\ text[1] = "ESC" THEN SubSeq(text, 6, Len(text)) ELSE text

\* Each flag is on exactly when its Enable function was called: the other
\* Enable functions and the logging functions leave it as it is.
FlagsFollowEnable ==
    /\ verboseEnabled <=> "EnableVerbose" \in enabled
    /\ debugEnabled <=> "EnableDebug" \in enabled
    /\ traceEnabled <=> "EnableTrace" \in enabled

\* A call of one of the functions calls wrote "<prefix><message>" as one
\* line, when the Enable function enable was called before, and else nothing.
PlainLine(calls, enable, prefix) ==
    written.call \in calls
    => IF enable \in enabled
       THEN /\ written.text \in {prefix \o written.message,
                                 prefix \o written.message \o <<"\n">>}
            /\ LineCount(written.text) = 1
       ELSE written.text = <<>>

FsCalls(ops) == {i \in DOMAIN hist : hist[i].op \in ops}
ExistedBefore(c) == Abs(c.path) \in DOMAIN c.pre
Found(c) == Stat(c.pre, c.path).err = Nil
Creating == {"CreateDirectory", "CreateFile", "WriteFile"}
Deleting ==
    {"DeleteDirectory", "DeleteDirectoryAll", "DeleteFile", "ReadFile", "CreateSymlink"}

\* C13: PathNotExists(path) returns TRUE when the path does not exist and FALSE
\* when it does: wherever stat succeeds or reports not-exist, its result is the
\* negation of the result of PathExists(path).
C13_PathNotExistsNegation ==
    \A i \in FsCalls({"PathNotExists"}) :
        (Found(hist[i]) \/ IsNotExist(Stat(hist[i].pre, hist[i].path).err))
        => /\ hist[i].err = Nil
           /\ hist[i].value = ~ExistedBefore(hist[i])
           /\ hist[i].value = ~PathExistsOp(hist[i].pre, hist[i].path).value

\* C14 (as claimed): CreateDirectory, CreateFile and WriteFile on a path that
\* exists return an 'already exists' error and change nothing; DeleteDirectory,
\* DeleteDirectoryAll, DeleteFile, ReadFile and CreateSymlink on a path (source)
\* that does not exist return a "doesn't exist" error and change nothing.
C14_ExistenceChecked ==
    /\ \A i \in FsCalls(Creating) :
           ExistedBefore(hist[i])
           => hist[i].err = "already exists" /\ hist[i].post = hist[i].pre
    /\ \A i \in FsCalls(Deleting) :
           ~ExistedBefore(hist[i])
           => hist[i].err = "doesn't exist" /\ hist[i].post = hist[i].pre

\* C14 (amended): the creating helpers on a path that os.Stat finds return an
\* 'already exists' error and change nothing; on a path that exists where
\* os.Stat cannot reach it they return the permission error of the creation
\* and change nothing; the deleting and reading helpers on a path that does
\* not exist return a "doesn't exist" error and change nothing.
C14_FoundPathKept ==
    /\ \A i \in FsCalls(Creating) :
           /\ Found(hist[i])
              => hist[i].err = "already exists" /\ hist[i].post = hist[i].pre
           /\ ExistedBefore(hist[i]) /\ ~Found(hist[i])
              => hist[i].err = "EACCES" /\ hist[i].post = hist[i].pre
    /\ \A i \in FsCalls(Deleting) :
           ~ExistedBefore(hist[i])
           => hist[i].err = "doesn't exist" /\ hist[i].post = hist[i].pre

\* CreateFile has refused a file that holds data, and a later DeleteFile has
\* refused a path that does not exist.
C14_Witness ==
    \E i, j \in DOMAIN hist :
        /\ i < j
        /\ hist[i].op = "CreateFile" /\ hist[i].path = <<"f", "/", "b">>
        /\ Found(hist[i]) /\ hist[i].pre[P_fb].data = PlainData("x")
        /\ hist[i].err = "already exists"
        /\ hist[j].op = "DeleteFile" /\ ~ExistedBefore(hist[j])
        /\ hist[j].err = "doesn't exist"


\* The visits of a walk that are not the visit of the source root.
BelowRoot(c) == {k \in DOMAIN c.visited : Abs(c.visited[k]) # Abs(c.source)}

\* C15: in an Archive of a directory whose walk met no error, the root is
\* visited first and is the only visit without an entry: the entries are, in
\* order, one for each later visit, named by that node (with "/" added for a
\* directory), also for a node whose name equals the base directory name.
C15_OnlyRootSkipped ==
    \A c \in ArchiveCalls :
        (WalkedDirectory(c) /\ c.walkErr = Nil)
        => /\ BelowRoot(c) = 2..Len(c.visited)
           /\ Len(c.entries) = Cardinality(BelowRoot(c))
           /\ \A k \in 1..Len(c.entries) :
                 k + 1 \in DOMAIN c.visited
                 => HasSuffix(<<"/">> \o c.entries[k].name,
                              <<"/">> \o Base(c.visited[k + 1])
                                 \o (IF c.entries[k].isDir THEN <<"/">> ELSE <<>>))


\* A call of Unarchive that read its container and returned success.
ExtractedAll(c) ==
    c.op = "Unarchive" /\ c.calls = <<"OpenReader", "Extract">> /\ c.err = Nil

\* C16: after a successful Unarchive, the directory of every directory entry
\* carries the entry's stored permission mode, whether Unarchive made it for
\* that entry or it existed before the entry was processed.
C16_DirectoryModeKept ==
    \A c \in UnarchiveCalls :
        ExtractedAll(c)
        => \A k \in 1..Len(c.entries) :
              (EntryIsDir(c.entries[k]) /\ Extracted_In(c.post, c.target, c.entries[k]))
              => c.post[Abs(ExtractionPath(c.target, c.entries[k]))].mode
                   = c.entries[k].mode

\* The paths a call created or changed.
Touched(c) ==
    {p \in DOMAIN c.post : p \notin DOMAIN c.pre \/ c.post[p] # c.pre[p]}

\* Path p lies in directory root, is root, or is a directory on the way to it.
Within(p, root) ==
    \/ p = root
    \/ HasPrefix(p, root \o <<Separator>>)
    \/ HasPrefix(root, p \o <<Separator>>)
    \/ p = Root

\* C17: whatever the entry names are, every directory and file Unarchive
\* creates or overwrites lies inside the target directory (the working
\* directory for an empty target); the only paths outside it that may appear
\* are the missing directories on the way to the target.
C17_ExtractionContained ==
    \A c \in UnarchiveCalls :
        \A p \in Touched(c) : Within(p, ExtractionRoot(c.target))

============================================================================
